---- MODULE Spec2Model ----
(***************************************************************************)
(* Model of vtkToVtp.py: CombinedVTKConverter and main.                    *)
(*                                                                         *)
(* File names are sequences of tokens; a mesh is a record holding its VTK  *)
(* class, the file its points come from and its number of points; point i  *)
(* of a mesh read from file f is the pair [file |-> f, i |-> i].           *)
(* The VTK readers, filters and writer are library calls: their outcome    *)
(* (an exception, or an output with some number of points) is an input     *)
(* drawn from a bounded set.                                               *)
(***************************************************************************)
EXTENDS Integers, Sequences, FiniteSets

\* ------------------------------------------------------------------ bounds
\* largest number of points a reader or filter yields
MaxPoints == 1
\* largest number of files in a component directory
MaxFiles == 1
\* largest decimal digit used in a primary file name
MaxDigit == 1
\* largest number of primary files in the directory
MaxPrimary == 2

\* ------------------------------------------------------------- file names
\* the tokens a file name is made of
PREFIX == [k |-> "gravityCasting_", v |-> 0]
EXT == [k |-> ".vtk", v |-> 0]
XCHAR == [k |-> "x", v |-> 0]
Digit(d) == [k |-> "digit", v |-> d]
Digits == {Digit(d) : d \in 0..MaxDigit}
Tokens == Digits \cup {PREFIX, EXT, XCHAR}
IsDigit(c) == c.k = "digit"

\* int(): the decimal value of a sequence of digit tokens
RECURSIVE IntOf(_)
IntOf(ds) ==
  IF ds = <<>> THEN 0
  ELSE 10 * IntOf(SubSeq(ds, 1, Len(ds) - 1)) + ds[Len(ds)].v

\* \d+ from position i of s: the end of the longest run of digits starting at i
\* (i - 1 when s[i] is no digit)
RECURSIVE DigitRunEnd(_, _)
DigitRunEnd(s, i) ==
  IF i <= Len(s) /\ IsDigit(s[i]) THEN DigitRunEnd(s, i + 1) ELSE i - 1

\* the regular expression gravityCasting_(\d+)\.vtk matches s at position i
MatchAt(s, i) ==
  /\ i >= 1 /\ i <= Len(s)
  /\ s[i] = PREFIX
  /\ LET last == DigitRunEnd(s, i + 1)
     IN /\ last >= i + 1
        /\ last + 1 <= Len(s)
        /\ s[last + 1] = EXT

\* re.search: the leftmost position where the expression matches, 0 for no match
Search(s) ==
  IF \E i \in 1..Len(s) : MatchAt(s, i)
  THEN CHOOSE i \in 1..Len(s) : MatchAt(s, i) /\ \A j \in 1..(i - 1) : ~MatchAt(s, j)
  ELSE 0

\* a plausible bug: only the first digit of the group is used
ExtractFirstDigitMutant(filename) ==
  LET at == Search(filename)
  IN IF at # 0 THEN filename[at + 1].v ELSE 0
extract_timestep_from_filename(filename) ==
  LET at == Search(filename)
  IN IF at # 0
     THEN IntOf(SubSeq(filename, at + 1, DigitRunEnd(filename, at + 1)))
     ELSE 0

\* ------------------------------------------------------------------ meshes
NoFile == [kind |-> "", idx |-> 0, name |-> <<>>]
PrimaryFile(name) == [kind |-> "gravityCasting", idx |-> 0, name |-> name]
ComponentFile(component, i) == [kind |-> component, idx |-> i, name |-> <<>>]

\* Python's None, in the shape of a mesh
None ==
  [cls |-> "None", file |-> NoFile, n |-> 0, arrays |-> {},
   ComponentID |-> <<>>, ComponentName |-> <<>>]
Mesh(cls, file, n) ==
  [cls |-> cls, file |-> file, n |-> n, arrays |-> {},
   ComponentID |-> <<>>, ComponentName |-> <<>>]

\* what a reader's Update()/GetOutput() can do on a file
ReaderOutcomes(classes, file) ==
  {[raises |-> TRUE, out |-> None], [raises |-> FALSE, out |-> None]}
  \cup {[raises |-> FALSE, out |-> Mesh(c, file, n)] : c \in classes, n \in 0..MaxPoints}
GenericOutcomes(file) == ReaderOutcomes({"vtkPolyData", "vtkUnstructuredGrid"}, file)
UGridOutcomes(file) == ReaderOutcomes({"vtkUnstructuredGrid"}, file)
\* what a filter's Update()/GetOutput() can do: an exception or n output points
FilterOutcomes ==
  {[raises |-> TRUE, n |-> 0]} \cup {[raises |-> FALSE, n |-> n] : n \in 0..MaxPoints}

\* ------------------------------------------------------------ safe_read_vtk
\* ret: the value returned; raised: an exception reached the caller;
\* readers: the readers that were run
\* a plausible bug: no try/except and no second reader
SafeReadNoFallbackMutant(avail, gen, ug) ==
  IF ~avail THEN [ret |-> None, raised |-> FALSE, readers |-> {}]
  ELSE IF gen.raises
  THEN [ret |-> None, raised |-> TRUE, readers |-> {"vtkDataSetReader"}]
  ELSE [ret |-> gen.out, raised |-> FALSE, readers |-> {"vtkDataSetReader"}]
safe_read_vtk(avail, gen, ug) ==
  IF ~avail THEN [ret |-> None, raised |-> FALSE, readers |-> {}]
  ELSE IF gen.raises
  THEN [ret |-> None, raised |-> FALSE, readers |-> {"vtkDataSetReader"}]
  ELSE IF gen.out # None /\ gen.out.n > 0
  THEN [ret |-> gen.out, raised |-> FALSE, readers |-> {"vtkDataSetReader"}]
  ELSE IF ug.raises
  THEN [ret |-> None, raised |-> FALSE,
        readers |-> {"vtkDataSetReader", "vtkUnstructuredGridReader"}]
  ELSE IF ug.out # None /\ ug.out.n > 0
  THEN [ret |-> ug.out, raised |-> FALSE,
        readers |-> {"vtkDataSetReader", "vtkUnstructuredGridReader"}]
  ELSE [ret |-> None, raised |-> FALSE,
        readers |-> {"vtkDataSetReader", "vtkUnstructuredGridReader"}]

\* ------------------------------------------------------ convert_to_polydata
Components == <<"inlet", "model", "riser">>
\* component_ids.get(component_name, 0)
\* a plausible bug: 'riser' is missing from the table
ComponentIdRiserMutant(component_name) ==
  CASE component_name = "gravityCasting" -> 1
    [] component_name = "inlet" -> 2
    [] component_name = "model" -> 3
    [] OTHER -> 0
component_ids(component_name) ==
  CASE component_name = "gravityCasting" -> 1
    [] component_name = "inlet" -> 2
    [] component_name = "model" -> 3
    [] component_name = "riser" -> 4
    [] OTHER -> 0

\* lines 115-128: the surface, or an exception
\* [raises, poly]: poly is the vtkPolyData the filters leave
Normalize(data, geom, surf) ==
  IF data.cls = "vtkPolyData" THEN [raises |-> FALSE, poly |-> data]
  ELSE IF geom.raises THEN [raises |-> TRUE, poly |-> None]
  ELSE IF geom.n # 0
  THEN [raises |-> FALSE, poly |-> Mesh("vtkPolyData", data.file, geom.n)]
  ELSE IF surf.raises THEN [raises |-> TRUE, poly |-> None]
  ELSE [raises |-> FALSE, poly |-> Mesh("vtkPolyData", data.file, surf.n)]

\* lines 131-155: the two arrays added to the point data
Tag(poly_data, component_name) ==
  IF poly_data.n > 0 /\ component_name # ""
  THEN [poly_data EXCEPT
          !.arrays = @ \cup {"ComponentID", "ComponentName"},
          !.ComponentID = [i \in 1..poly_data.n |-> component_ids(component_name)],
          !.ComponentName = [i \in 1..poly_data.n |-> component_name]]
  ELSE poly_data

\* a plausible bug: line 157 returns poly_data without looking at its points
ConvertKeepEmptyMutant(data, geom, surf, component_name) ==
  IF data = None THEN None
  ELSE IF Normalize(data, geom, surf).raises THEN None
  ELSE Tag(Normalize(data, geom, surf).poly, component_name)
convert_to_polydata(data, geom, surf, component_name) ==
  IF data = None THEN None
  ELSE IF Normalize(data, geom, surf).raises THEN None
  ELSE LET poly_data == Tag(Normalize(data, geom, surf).poly, component_name)
       IN IF poly_data.n > 0 THEN poly_data ELSE None

\* ------------------------------------------------------- get_timestep_files
\* sorted(): the elements of a set of integers in ascending order
RECURSIVE Sorted(_)
Sorted(S) ==
  IF S = {} THEN <<>>
  ELSE LET m == CHOOSE x \in S : \A y \in S : x <= y
       IN <<m>> \o Sorted(S \ {m})

\* lines 46-52: the loop over main_files; a later file of the same timestep
\* replaces an earlier one
RECURSIVE MainByTimestep(_)
MainByTimestep(main_files) ==
  IF main_files = <<>> THEN <<>>
  ELSE LET before == MainByTimestep(SubSeq(main_files, 1, Len(main_files) - 1))
           f == main_files[Len(main_files)]
           timestep == extract_timestep_from_filename(f)
       IN [t \in DOMAIN before \cup {timestep} |->
             IF t = timestep THEN f ELSE before[t]]

\* lines 46-51: the set of timesteps of main_files
TimestepSet(main_files) ==
  {extract_timestep_from_filename(main_files[i]) : i \in 1..Len(main_files)}

\* lines 61-69: a component directory is absent, or holds the files named by a
\* set of integers; the list is sorted by name
ComponentFiles(dirs) ==
  [c \in {Components[i] : i \in 1..Len(Components)} |->
     IF dirs[c].exists THEN Sorted(dirs[c].files) ELSE <<>>]

get_timestep_files(main_files, dirs) ==
  [main_by_timestep |-> MainByTimestep(main_files),
   component_files |-> ComponentFiles(dirs),
   timesteps |-> Sorted(TimestepSet(main_files))]

\* ---------------------------------------------------- combine_timestep_data
\* line 183-185: the files of a component's list used for a timestep (none or one);
\* list index timestep is position timestep + 1 of the sequence
\* a plausible bug: the first file stands in when the index is out of range
SelectFileFallbackMutant(files, timestep) ==
  IF files # <<>>
  THEN <<IF timestep < Len(files) THEN files[timestep + 1] ELSE files[1]>>
  ELSE <<>>
SelectFile(files, timestep) ==
  IF timestep < Len(files) /\ files # <<>>
  THEN <<IF timestep < Len(files) THEN files[timestep + 1] ELSE files[1]>>
  ELSE <<>>

\* the points of a surface, in order
PointsOf(poly_data) == [i \in 1..poly_data.n |-> [file |-> poly_data.file, i |-> i]]

\* the combined mesh; isNone marks Python's None
CombinedNone ==
  [isNone |-> TRUE, pts |-> <<>>, arrays |-> {}, ComponentID |-> <<>>,
   ComponentName |-> <<>>, TimeValue |-> 0]

RECURSIVE ConcatPoints(_)
ConcatPoints(inputs) ==
  IF inputs = <<>> THEN <<>>
  ELSE ConcatPoints(SubSeq(inputs, 1, Len(inputs) - 1)) \o PointsOf(inputs[Len(inputs)])
RECURSIVE ConcatIDs(_)
ConcatIDs(inputs) ==
  IF inputs = <<>> THEN <<>>
  ELSE ConcatIDs(SubSeq(inputs, 1, Len(inputs) - 1)) \o inputs[Len(inputs)].ComponentID
RECURSIVE ConcatNames(_)
ConcatNames(inputs) ==
  IF inputs = <<>> THEN <<>>
  ELSE ConcatNames(SubSeq(inputs, 1, Len(inputs) - 1)) \o inputs[Len(inputs)].ComponentName

\* vtkAppendPolyData: the points of the inputs in the order they were added, and
\* the point arrays all the inputs have, concatenated in the same order
\* a plausible bug: only the last input reaches the output
AppendLastOnlyMutant(inputs) ==
  [isNone |-> FALSE,
   pts |-> PointsOf(inputs[Len(inputs)]),
   arrays |-> inputs[Len(inputs)].arrays,
   ComponentID |-> inputs[Len(inputs)].ComponentID,
   ComponentName |-> inputs[Len(inputs)].ComponentName,
   TimeValue |-> 0]
AppendPolyData(inputs) ==
  LET common == {a \in {"ComponentID", "ComponentName"} :
                   \A k \in 1..Len(inputs) : a \in inputs[k].arrays}
  IN [isNone |-> FALSE,
      pts |-> ConcatPoints(inputs),
      arrays |-> common,
      ComponentID |-> IF "ComponentID" \in common THEN ConcatIDs(inputs) ELSE <<>>,
      ComponentName |-> IF "ComponentName" \in common THEN ConcatNames(inputs) ELSE <<>>,
      TimeValue |-> 0]

\* lines 194-215: the value combine_timestep_data returns
\* a plausible bug: the check of line 194 is missing
CombineNoCheckMutant(inputs, components_added, timestep, appendRaises) ==
  IF appendRaises THEN CombinedNone
  ELSE [AppendPolyData(inputs) EXCEPT !.TimeValue = timestep]
CombineResult(inputs, components_added, timestep, appendRaises) ==
  IF components_added = 0 THEN CombinedNone
  ELSE IF appendRaises THEN CombinedNone
  ELSE [AppendPolyData(inputs) EXCEPT !.TimeValue = timestep]

\* the outcomes of vtkXMLPolyDataWriter.Write(): the file is written, Write()
\* raises, or Write() returns 0 having written nothing
WriteOutcomes == {"written", "raises", "fails"}
\* lines 219-231: the value write_vtp returns
write_vtp(outcome) == outcome # "raises"

\* line 177, 190: append_filter.AddInputData(poly_data)
\* a plausible bug: the new input is put first
AddInputDataFrontMutant(inputs, poly_data) == <<poly_data>> \o inputs
AddInputData(inputs, poly_data) == inputs \o <<poly_data>>

\* line 258: the name of the output file, as the digits after combined_timestep_:
\* the decimal digits of the timestep, zero-padded to four
RECURSIVE Decimal(_)
Decimal(n) == IF n < 10 THEN <<n>> ELSE Decimal(n \div 10) \o <<n % 10>>
RECURSIVE PadLeft(_, _)
PadLeft(ds, width) == IF Len(ds) >= width THEN ds ELSE PadLeft(<<0>> \o ds, width)
OutputName(timestep) == PadLeft(Decimal(timestep), 4)

\* -------------------------------------------------------------------- state
VARIABLES
  pc,                     \* where the run is
  argv,                   \* "ok", "noarg" (len(sys.argv) < 2), "nopath" (no such directory)
  VTK_AVAILABLE,          \* line 15-24
  main_files,             \* glob of gravityCasting_*.vtk, in the order glob lists it
  comp_dirs,              \* the component directories
  main_by_timestep, component_files, timesteps,   \* get_timestep_files' results
  ti,                     \* position of the loop of line 250 in timesteps
  ci,                     \* position of the loop of line 182 in Components
  append_inputs,          \* the inputs of append_filter, in the order added
  attempts,               \* per input of this timestep: the files used and poly_data
  total_points, components_added,
  combined_data,          \* what combine_timestep_data returned
  successful_conversions,
  output_dir,             \* file name -> the combined_timestep_*.vtp written in this run
  exit_code,              \* -1 while running
  history,                \* timestep -> what its iteration did: the points of the
                          \* inputs that were read and normalized, the tally before
                          \* and after, whether a mesh was combined, what the
                          \* writer did and what write_vtp returned
  other_files,            \* a second listing of the same primary files
  other_main_by_timestep, \* main_by_timestep of a run that is given other_files
  extracted,              \* per file of main_files: the timestep of line 50
  call, result            \* a call of safe_read_vtk or convert_to_polydata, its result

vars ==
  <<pc, argv, VTK_AVAILABLE, main_files, comp_dirs, main_by_timestep, component_files,
    timesteps, ti, ci, append_inputs, attempts, total_points, components_added,
    combined_data, successful_conversions, output_dir, exit_code, history,
    other_files, other_main_by_timestep, extracted, call, result>>

ComponentSet == {Components[i] : i \in 1..Len(Components)}
NoDirs == [c \in ComponentSet |-> [exists |-> FALSE, files |-> {}]]
\* a component directory: absent, or holding files 1..L
DirStates ==
  {[exists |-> FALSE, files |-> {}]} \cup {[exists |-> TRUE, files |-> 1..L] : L \in 0..MaxFiles}

\* the orderings of at most len distinct names of a set
Listings(names, len) ==
  {l \in UNION {[1..k -> names] : k \in 0..len} :
     \A i, j \in 1..Len(l) : i # j => l[i] # l[j]}
\* a listing in the opposite order
Reversed(l) == [i \in 1..Len(l) |-> l[Len(l) + 1 - i]]

\* names the glob gravityCasting_*.vtk lists: the prefix, at most two tokens, .vtk
GlobNames ==
  {<<PREFIX, EXT>>}
  \cup {<<PREFIX, a, EXT>> : a \in Tokens}
  \cup {<<PREFIX, a, b, EXT>> : a \in Tokens, b \in Tokens}
\* the primary files of a run of the pipeline: gravityCasting_0.vtk,
\* gravityCasting_1.vtk and gravityCasting_x.vtk, whose name holds no timestep
PrimaryNames ==
  {<<PREFIX, Digit(0), EXT>>, <<PREFIX, Digit(1), EXT>>, <<PREFIX, XCHAR, EXT>>}

NoCall ==
  [fn |-> "", avail |-> FALSE, gen |-> [raises |-> FALSE, out |-> None],
   ug |-> [raises |-> FALSE, out |-> None], data |-> None,
   geom |-> [raises |-> FALSE, n |-> 0], surf |-> [raises |-> FALSE, n |-> 0],
   component_name |-> ""]
NoResult == [ret |-> None, raised |-> FALSE, readers |-> {}]

\* --------------------------------------------------------------- pipeline
Runnable == argv = "ok" /\ VTK_AVAILABLE

Idle ==
  /\ main_by_timestep = <<>> /\ component_files = [c \in ComponentSet |-> <<>>]
  /\ timesteps = <<>> /\ ti = 1 /\ ci = 1
  /\ append_inputs = <<>> /\ attempts = <<>>
  /\ total_points = 0 /\ components_added = 0
  /\ combined_data = CombinedNone /\ successful_conversions = 0
  /\ output_dir = <<>> /\ exit_code = -1 /\ history = <<>>
  /\ other_main_by_timestep = <<>> /\ extracted = <<>>
  /\ result = NoResult

Init ==
  /\ pc = "main"
  /\ argv \in {"ok", "noarg", "nopath"}
  /\ VTK_AVAILABLE \in BOOLEAN
  /\ main_files \in Listings(PrimaryNames, MaxPrimary)
  /\ comp_dirs \in [ComponentSet -> DirStates]
  /\ (argv # "ok" \/ ~VTK_AVAILABLE) => (main_files = <<>> /\ comp_dirs = NoDirs)
  /\ other_files = main_files
  /\ call = NoCall
  /\ Idle

\* lines 268-290 up to the call of convert_all_timesteps, and lines 235-246
Main ==
  /\ pc = "main"
  /\ IF ~Runnable
     THEN /\ pc' = "exit" /\ exit_code' = 1
          /\ UNCHANGED <<main_by_timestep, component_files, timesteps, extracted>>
     ELSE LET scan == get_timestep_files(main_files, comp_dirs)
          IN /\ main_by_timestep' = scan.main_by_timestep
             /\ component_files' = scan.component_files
             /\ timesteps' = scan.timesteps
             /\ extracted' = [i \in 1..Len(main_files) |->
                                extract_timestep_from_filename(main_files[i])]
             /\ IF scan.timesteps = <<>>
                THEN pc' = "exit" /\ exit_code' = 0
                ELSE pc' = "primary" /\ exit_code' = exit_code
  /\ UNCHANGED <<argv, VTK_AVAILABLE, main_files, comp_dirs, ti, ci, append_inputs,
                 attempts, total_points, components_added, combined_data,
                 successful_conversions, output_dir, history, other_files,
                 other_main_by_timestep, call, result>>

\* what safe_read_vtk can return for a file, over the outcomes of the readers
ReadResults(file) ==
  {safe_read_vtk(VTK_AVAILABLE, gen, ug).ret :
     gen \in GenericOutcomes(file), ug \in UGridOutcomes(file)}
\* lines 173-176, 186-189: poly_data for a file, over the outcomes of the readers
\* and the filters; convert_to_polydata is called only when data is not None
PolyResults(file, component_name) ==
  {IF data # None THEN convert_to_polydata(data, geom, surf, component_name) ELSE None :
     data \in ReadResults(file), geom \in FilterOutcomes, surf \in FilterOutcomes}

\* one input of combine_timestep_data: Reader, Normalizer and Tagger on the files
\* selected (none or one), then the registration of lines 176-179, 189-192
Process(files, component_name) ==
  \E poly_data \in IF files = <<>> THEN {None} ELSE PolyResults(files[1], component_name) :
     /\ attempts' = Append(attempts,
                           [component |-> component_name, files |-> files,
                            poly_data |-> poly_data])
     /\ IF poly_data # None
        THEN /\ append_inputs' = AddInputData(append_inputs, poly_data)
             /\ total_points' = total_points + poly_data.n
             /\ components_added' = components_added + 1
        ELSE UNCHANGED <<append_inputs, total_points, components_added>>

\* lines 251, 165-179: the primary file of the timestep; exists is
\* os.path.exists(main_file)
ReadPrimary ==
  /\ pc = "primary"
  /\ LET timestep == timesteps[ti]
         main_file == main_by_timestep[timestep]
     IN \E exists \in BOOLEAN :
          Process(IF exists THEN <<PrimaryFile(main_file)>> ELSE <<>>, "gravityCasting")
  /\ pc' = "component" /\ ci' = 1
  /\ UNCHANGED <<argv, VTK_AVAILABLE, main_files, comp_dirs, main_by_timestep,
                 component_files, timesteps, ti, combined_data, successful_conversions,
                 output_dir, exit_code, history, other_files, other_main_by_timestep,
                 extracted, call, result>>

\* the files of a component's list used for a timestep, as files
ComponentInput(component, timestep) ==
  LET files == SelectFile(component_files[component], timestep)
  IN [k \in 1..Len(files) |-> ComponentFile(component, files[k])]

\* lines 182-192: one round of the loop over the components
ReadComponent ==
  /\ pc = "component"
  /\ Process(ComponentInput(Components[ci], timesteps[ti]), Components[ci])
  /\ IF ci < Len(Components)
     THEN ci' = ci + 1 /\ pc' = pc
     ELSE ci' = 1 /\ pc' = "combine"
  /\ UNCHANGED <<argv, VTK_AVAILABLE, main_files, comp_dirs, main_by_timestep,
                 component_files, timesteps, ti, combined_data, successful_conversions,
                 output_dir, exit_code, history, other_files, other_main_by_timestep,
                 extracted, call, result>>

\* lines 194-215
Combine ==
  /\ pc = "combine"
  /\ \E appendRaises \in BOOLEAN :
       combined_data' =
         CombineResult(append_inputs, components_added, timesteps[ti], appendRaises)
  /\ pc' = "write"
  /\ UNCHANGED <<argv, VTK_AVAILABLE, main_files, comp_dirs, main_by_timestep,
                 component_files, timesteps, ti, ci, append_inputs, attempts,
                 total_points, components_added, successful_conversions, output_dir,
                 exit_code, history, other_files, other_main_by_timestep, extracted,
                 call, result>>

\* what the iteration of a timestep leaves in history
RECURSIVE SumPoints(_)
SumPoints(as) ==
  IF as = <<>> THEN 0
  ELSE SumPoints(SubSeq(as, 1, Len(as) - 1)) + as[Len(as)].poly_data.n
Entry(outcome, returned) ==
  [points |-> SumPoints(attempts),
   before |-> successful_conversions,
   combined |-> ~combined_data.isNone,
   write |-> outcome,
   returned |-> returned,
   tally |-> successful_conversions']

\* lines 256-260, and the next round of the loop of line 250
Write ==
  /\ pc = "write"
  /\ LET timestep == timesteps[ti]
     IN IF combined_data.isNone
        THEN /\ UNCHANGED <<successful_conversions, output_dir>>
             /\ history' = [t \in DOMAIN history \cup {timestep} |->
                              IF t = timestep THEN Entry("none", FALSE) ELSE history[t]]
        ELSE \E outcome \in WriteOutcomes :
             /\ output_dir' =
                  IF outcome = "written"
                  THEN [f \in DOMAIN output_dir \cup {OutputName(timestep)} |->
                          IF f = OutputName(timestep)
                          THEN [points |-> Len(combined_data.pts),
                                TimeValue |-> combined_data.TimeValue]
                          ELSE output_dir[f]]
                  ELSE output_dir
             /\ successful_conversions' =
                  IF write_vtp(outcome) THEN successful_conversions + 1
                  ELSE successful_conversions
             /\ history' = [t \in DOMAIN history \cup {timestep} |->
                              IF t = timestep THEN Entry(outcome, write_vtp(outcome))
                              ELSE history[t]]
  /\ IF ti < Len(timesteps)
     THEN ti' = ti + 1 /\ pc' = "primary"
     ELSE ti' = ti /\ pc' = "finish"
  \* the iteration's meshes and counters are dropped
  /\ append_inputs' = <<>> /\ attempts' = <<>>
  /\ total_points' = 0 /\ components_added' = 0
  /\ combined_data' = CombinedNone
  /\ UNCHANGED <<argv, VTK_AVAILABLE, main_files, comp_dirs, main_by_timestep,
                 component_files, timesteps, ci, exit_code, other_files,
                 other_main_by_timestep, extracted, call, result>>

\* lines 262-266, and the normal end of main
Finish ==
  /\ pc = "finish"
  /\ pc' = "exit" /\ exit_code' = 0
  /\ UNCHANGED <<argv, VTK_AVAILABLE, main_files, comp_dirs, main_by_timestep,
                 component_files, timesteps, ti, ci, append_inputs, attempts,
                 total_points, components_added, combined_data, successful_conversions,
                 output_dir, history, other_files, other_main_by_timestep, extracted,
                 call, result>>

Next == Main \/ ReadPrimary \/ ReadComponent \/ Combine \/ Write \/ Finish

Spec == Init /\ [][Next]_vars

\* ------------------------------------------- get_timestep_files on its own
\* get_timestep_files on a directory whose primary files the glob lists as
\* main_files, and again on the same directory listed in the opposite order
InitScan ==
  /\ pc = "scan"
  /\ argv = "ok" /\ VTK_AVAILABLE = TRUE
  /\ main_files \in Listings(GlobNames, MaxPrimary)
  /\ other_files = Reversed(main_files)
  /\ comp_dirs = NoDirs
  /\ call = NoCall
  /\ Idle

ScanBoth ==
  /\ pc = "scan"
  /\ LET scan == get_timestep_files(main_files, comp_dirs)
         other == get_timestep_files(other_files, comp_dirs)
     IN /\ main_by_timestep' = scan.main_by_timestep
        /\ component_files' = scan.component_files
        /\ timesteps' = scan.timesteps
        /\ extracted' = [i \in 1..Len(main_files) |->
                           extract_timestep_from_filename(main_files[i])]
        /\ other_main_by_timestep' = other.main_by_timestep
  /\ pc' = "scanned"
  /\ UNCHANGED <<argv, VTK_AVAILABLE, main_files, comp_dirs, ti, ci, append_inputs,
                 attempts, total_points, components_added, combined_data,
                 successful_conversions, output_dir, exit_code, history, other_files,
                 call, result>>

NextScan == ScanBoth

SpecScan == InitScan /\ [][NextScan]_vars

\* ------------------------- safe_read_vtk and convert_to_polydata on their own
UnitFile == PrimaryFile(<<PREFIX, Digit(0), EXT>>)
ReadCalls ==
  {[NoCall EXCEPT !.fn = "safe_read_vtk", !.avail = a, !.gen = g, !.ug = u] :
     a \in BOOLEAN, g \in GenericOutcomes(UnitFile), u \in UGridOutcomes(UnitFile)}
Labels == {"", "gravityCasting", "inlet", "model", "riser", "mould"}
ConvertCalls ==
  {[NoCall EXCEPT !.fn = "convert_to_polydata", !.avail = TRUE, !.data = d,
                  !.geom = g, !.surf = f, !.component_name = l] :
     d \in {None} \cup {Mesh(c, UnitFile, n) :
                          c \in {"vtkPolyData", "vtkUnstructuredGrid"}, n \in 0..MaxPoints},
     g \in FilterOutcomes, f \in FilterOutcomes, l \in Labels}

InitUnit ==
  /\ pc = "call"
  /\ call \in ReadCalls \cup ConvertCalls
  /\ argv = "ok" /\ VTK_AVAILABLE = call.avail
  /\ main_files = <<>> /\ other_files = <<>>
  /\ comp_dirs = NoDirs
  /\ Idle

UnitFrame ==
  UNCHANGED <<argv, VTK_AVAILABLE, main_files, comp_dirs, main_by_timestep,
              component_files, timesteps, ti, ci, append_inputs, attempts,
              total_points, components_added, combined_data, successful_conversions,
              output_dir, exit_code, history, other_files, other_main_by_timestep,
              extracted, call>>

SafeReadCall ==
  /\ pc = "call" /\ call.fn = "safe_read_vtk"
  /\ result' = safe_read_vtk(VTK_AVAILABLE, call.gen, call.ug)
  /\ pc' = "returned"
  /\ UnitFrame

ConvertCall ==
  /\ pc = "call" /\ call.fn = "convert_to_polydata"
  /\ result' = [ret |-> convert_to_polydata(call.data, call.geom, call.surf,
                                            call.component_name),
                raised |-> FALSE, readers |-> {}]
  /\ pc' = "returned"
  /\ UnitFrame

NextUnit == SafeReadCall \/ ConvertCall

SpecUnit == InitUnit /\ [][NextUnit]_vars

\* ------------------------------------------------------------------ claims
\* the run reached the normal end of main
Finished == pc = "exit" /\ exit_code = 0
TimestepSeen == {timesteps[k] : k \in 1..Len(timesteps)}
\* the files of output_dir that hold the mesh of timestep t
FilesOf(t) == {f \in DOMAIN output_dir : output_dir[f].TimeValue = t}
\* the values ComponentID may take, by component
IdOf == [c \in {"gravityCasting", "inlet", "model", "riser"} |->
           CASE c = "gravityCasting" -> 1 [] c = "inlet" -> 2
             [] c = "model" -> 3 [] c = "riser" -> 4]

C2_ComponentArrays ==
  (pc = "write" /\ ~combined_data.isNone) =>
    /\ {"ComponentID", "ComponentName"} \subseteq combined_data.arrays
    /\ Len(combined_data.ComponentID) = Len(combined_data.pts)
    /\ Len(combined_data.ComponentName) = Len(combined_data.pts)
    /\ \A i \in 1..Len(combined_data.pts) :
         /\ combined_data.ComponentID[i] \in 1..4
         /\ combined_data.ComponentName[i] = combined_data.pts[i].file.kind
         /\ combined_data.ComponentID[i] = IdOf[combined_data.pts[i].file.kind]

C2_Witness ==
  /\ pc = "write" /\ ~combined_data.isNone
  /\ \E i, j \in 1..Len(combined_data.pts) :
       /\ combined_data.ComponentName[i] = "gravityCasting"
       /\ combined_data.ComponentName[j] = "riser"
       /\ combined_data.ComponentID[j] = 4

C4_NoDataTimestep ==
  /\ \A t \in DOMAIN history :
       history[t].points = 0 =>
         /\ ~history[t].combined
         /\ history[t].write = "none"
         /\ FilesOf(t) = {}
         /\ OutputName(t) \notin DOMAIN output_dir
         /\ history[t].tally = history[t].before
  /\ (pc = "exit" /\ Runnable) =>
       /\ exit_code = 0
       /\ TimestepSeen = DOMAIN history
  /\ (pc = "primary" /\ ti > 1) => \A k \in 1..(ti - 1) : timesteps[k] \in DOMAIN history

C4_Witness ==
  /\ pc = "exit" /\ exit_code = 0
  /\ \E t1, t2 \in DOMAIN history :
       /\ t1 < t2
       /\ history[t1].points = 0
       /\ history[t2].write = "written"
       /\ successful_conversions = 1

\* C5, as stated: write_vtp returns success exactly when the file was written,
\* and the final tally is the number of output files written.
C5_Original ==
  /\ \A t \in DOMAIN history :
       history[t].returned <=> OutputName(t) \in DOMAIN output_dir
  /\ Finished => successful_conversions = Cardinality(DOMAIN output_dir)

\* C9: the inputs of the append are the surfaces of the inputs that were read
\* and normalized, in the order gravityCasting, inlet, model, riser, and the
\* combined point list is their point lists one after the other.
ReadOK(as) == SelectSeq(as, LAMBDA a : a.poly_data # None)
RECURSIVE PointsInOrder(_)
PointsInOrder(as) ==
  IF as = <<>> THEN <<>>
  ELSE [i \in 1..as[1].poly_data.n |-> [file |-> as[1].poly_data.file, i |-> i]]
       \o PointsInOrder(Tail(as))
C9_RegistrationOrder ==
  /\ \A k \in 1..Len(attempts) :
       attempts[k].component = <<"gravityCasting", "inlet", "model", "riser">>[k]
  /\ Len(append_inputs) = Len(ReadOK(attempts))
  /\ \A k \in 1..Len(append_inputs) : append_inputs[k] = ReadOK(attempts)[k].poly_data
  /\ components_added = Len(ReadOK(attempts))
  /\ (pc = "write" /\ ~combined_data.isNone) =>
       combined_data.pts = PointsInOrder(ReadOK(attempts))
  /\ pc = "write" => Len(attempts) = 4

C9_Witness ==
  /\ pc = "write" /\ ~combined_data.isNone
  /\ attempts[1].poly_data # None
  /\ attempts[2].files # <<>> /\ attempts[2].poly_data = None
  /\ attempts[3].poly_data # None
  /\ attempts[4].poly_data # None

\* C6, as stated: the mapping from timestep to primary file does not depend on
\* the order in which the directory lists the primary files.
C6_Original ==
  pc = "scanned" => main_by_timestep = other_main_by_timestep

\* the name is gravityCasting_<decimal digits>.vtk
IsForm(name) ==
  /\ Len(name) >= 3
  /\ name[1] = PREFIX /\ name[Len(name)] = EXT
  /\ \A k \in 2..(Len(name) - 1) : IsDigit(name[k])
\* gravityCasting_<decimal digits>.vtk occurs in the name, the digits being
\* those of positions i + 1 to j
Occurs(name, i, j) ==
  /\ 1 <= i /\ i < j /\ j < Len(name)
  /\ name[i] = PREFIX /\ name[j + 1] = EXT
  /\ \A k \in (i + 1)..j : IsDigit(name[k])
\* the number the digits of positions i to j of the name write
RECURSIVE ValueOf(_, _, _)
ValueOf(name, i, j) ==
  IF j < i THEN 0 ELSE 10 * ValueOf(name, i, j - 1) + name[j].v
IsAscending(seq) == \A a, b \in 1..Len(seq) : a < b => seq[a] < seq[b]

\* C7, as stated: the timestep of a name of the form gravityCasting_<digits>.vtk
\* is the number its digits write, the timestep of every other name is 0, and
\* timesteps lists the extracted values once each, in ascending order.
C7_Original ==
  pc = "scanned" =>
    /\ \A i \in 1..Len(main_files) :
         /\ IsForm(main_files[i]) =>
              extracted[i] = ValueOf(main_files[i], 2, Len(main_files[i]) - 1)
         /\ ~IsForm(main_files[i]) => extracted[i] = 0
    /\ IsAscending(timesteps)
    /\ {timesteps[k] : k \in 1..Len(timesteps)}
         = {extracted[i] : i \in 1..Len(main_files)}

\* C7, amended: the timestep is 0 for the names in which gravityCasting_<digits>.vtk
\* does not occur; a name in which it occurs has the number of its leftmost
\* occurrence, which for a name of that form is the number its digits write.
C7_Extraction ==
  pc = "scanned" =>
    /\ \A i \in 1..Len(main_files) :
         LET name == main_files[i]
             occurs == \E a, b \in 1..Len(name) : Occurs(name, a, b)
         IN /\ IsForm(name) => extracted[i] = ValueOf(name, 2, Len(name) - 1)
            /\ ~occurs => extracted[i] = 0
            /\ occurs =>
                 \E a, b \in 1..Len(name) :
                   /\ Occurs(name, a, b)
                   /\ \A c, d \in 1..Len(name) : Occurs(name, c, d) => a <= c
                   /\ extracted[i] = ValueOf(name, a + 1, b)
    /\ IsAscending(timesteps)
    /\ {timesteps[k] : k \in 1..Len(timesteps)}
         = {extracted[i] : i \in 1..Len(main_files)}
    /\ DOMAIN main_by_timestep = {extracted[i] : i \in 1..Len(main_files)}

C7_Witness ==
  /\ pc = "scanned"
  /\ Len(main_files) = 2
  /\ IsForm(main_files[1]) /\ Len(main_files[1]) = 4 /\ extracted[1] = 1
  /\ ~IsForm(main_files[2]) /\ extracted[2] = 0
  /\ timesteps = <<0, 1>>

\* the number of points of the surface convert_to_polydata arrives at for a
\* call: the input's when it is a vtkPolyData, else what the filters give
SurfacePoints(c) ==
  IF c.data.cls = "vtkPolyData" THEN c.data.n
  ELSE IF c.geom.n # 0 THEN c.geom.n ELSE c.surf.n
\* an exception is raised on the way to that surface
ConversionRaises(c) ==
  /\ c.data.cls # "vtkPolyData"
  /\ c.geom.raises \/ (c.geom.n = 0 /\ c.surf.raises)
Converted == pc = "returned" /\ call.fn = "convert_to_polydata"
BothArrays(m) ==
  /\ m.arrays = {"ComponentID", "ComponentName"}
  /\ Len(m.ComponentID) = m.n /\ Len(m.ComponentName) = m.n

\* C8, as stated: convert_to_polydata returns None, and attaches nothing,
\* whenever the surface has no points or the label is empty; what it returns
\* otherwise has both arrays, each as long as its point list.
C8_Original ==
  (Converted /\ call.data # None /\ ~ConversionRaises(call)) =>
    /\ (SurfacePoints(call) = 0 \/ call.component_name = "") =>
         result.ret = None
    /\ result.ret # None =>
         /\ SurfacePoints(call) > 0 /\ call.component_name # ""
         /\ BothArrays(result.ret)

\* C8, amended: it returns None exactly when the surface has no points; with an
\* empty label it attaches nothing and returns the surface as it is; with a
\* label and a non-empty surface it returns the surface with both arrays.
C8_Convert ==
  Converted =>
    /\ (call.data = None \/ ConversionRaises(call)) => result.ret = None
    /\ (call.data # None /\ ~ConversionRaises(call)) =>
         /\ result.ret = None <=> SurfacePoints(call) = 0
         /\ result.ret # None =>
              /\ result.ret.n = SurfacePoints(call)
              /\ call.component_name = "" => result.ret.arrays = {}
              /\ call.component_name # "" =>
                   /\ BothArrays(result.ret)
                   /\ \A i \in 1..result.ret.n :
                        result.ret.ComponentName[i] = call.component_name

C8_Witness ==
  /\ Converted
  /\ call.component_name = ""
  /\ call.data.cls = "vtkUnstructuredGrid"
  /\ result.ret # None /\ result.ret.arrays = {}

\* the number of points of a reader's output (none for no output)
OutPoints(o) == IF o.out = None THEN 0 ELSE o.out.n
ReadDone == pc = "returned" /\ call.fn = "safe_read_vtk"

\* C10: safe_read_vtk raises nothing and returns a mesh with points or None: the
\* generic reader's mesh when that has points; the unstructured-grid reader
\* runs exactly when the generic reader ran, did not raise and gave no points,
\* and its mesh is returned when it has points; None in every other case.
C10_SafeRead ==
  ReadDone =>
    LET genRan == "vtkDataSetReader" \in result.readers
        ugRan == "vtkUnstructuredGridReader" \in result.readers
        genGood == genRan /\ ~call.gen.raises /\ OutPoints(call.gen) > 0
        ugGood == ugRan /\ ~call.ug.raises /\ OutPoints(call.ug) > 0
    IN /\ ~result.raised
       /\ result.ret = None \/ result.ret.n > 0
       /\ genRan <=> call.avail
       /\ genGood => result.ret = call.gen.out
       /\ ugRan <=> (genRan /\ ~call.gen.raises /\ OutPoints(call.gen) = 0)
       /\ ugGood => result.ret = call.ug.out
       /\ (~genGood /\ ~ugGood) => result.ret = None

C10_Witness ==
  /\ ReadDone
  /\ "vtkUnstructuredGridReader" \in result.readers
  /\ ~call.gen.raises /\ call.gen.out # None /\ call.gen.out.n = 0
  /\ result.ret = call.ug.out /\ result.ret.n > 0

====
